---- MODULE Spec2Model ----
(***************************************************************************)
(* Model of RWKV-v4neo/src/model.py: the segmented BPTT trainer            *)
(* (RWKV.compute_loss and its callers, the context-length curriculum       *)
(* included), configure_optimizers, inference through SimpleRWKV, the      *)
(* state slots of BlockStateList with the token shifts of the Time-Mix and *)
(* Channel-Mix units, and L2Wrap.                                          *)
(*                                                                         *)
(* The model follows the control flow of the source statement by           *)
(* statement.  What it abstracts:                                          *)
(*  - in the trainer and in inference the Stack is a deterministic         *)
(*    per-token state transition: the Stack State of a batch row is the    *)
(*    sequence of tokens that row has consumed so far, so two states are   *)
(*    equal exactly when the same tokens were fed in the same order, and   *)
(*    BlockStateList is modelled by the values it carries from one forward *)
(*    call to the next;                                                    *)
(*  - the part on BlockStateList models the lists of tensor references,    *)
(*    the cells they address and the rows of the shift states as the       *)
(*    source builds, reads and writes them;                                *)
(*  - in both, a call is taken to bind the arguments and attributes the    *)
(*    callee's body uses: that the constructor of BlockStateList takes     *)
(*    four arguments and is called with three, that __setitem__ is called  *)
(*    without channel_id, and that some attribute names differ between     *)
(*    definition and use (model.py lines 160-204, 396, 953, 1034-1040,     *)
(*    1064) is not modelled;                                               *)
(*  - tensors are modelled by their logical contents (rows of numbers),    *)
(*    view(-1) as the row-major flattening; storage layout and dtype are   *)
(*    not represented;                                                     *)
(*  - a loss is kept as its numerator, the sum of mask * position loss;    *)
(*    every loss of one step has the denominator total_mask_sum.           *)
(*  - L2Wrap is modelled with the shapes of its tensors and the            *)
(*    broadcasting of their product; its gradient is counted in units of   *)
(*    1e-4 / token_amount.                                                 *)
(***************************************************************************)
EXTENDS Integers, Sequences, FiniteSets, TLC

VARIABLES
    self,              \* the RWKV module's hyper-parameters (RWKV.__init__)
    is_training_run,   \* TRUE for training_step, FALSE for validation_step
    phase,             \* "unconfigured", "ready" or "fatal" (configure_optimizers)
    batch,             \* batch[w]: the batch handed to worker w
    pc,                \* pc[w]: worker w's position in the step
    frame,             \* frame[w]: the local variables of compute_loss
    all_reduce,        \* all_reduce[w]: value w contributed to the max-reduction, 0 = none
    backward_calls,    \* backward_calls[w]: backward passes worker w has entered
    log,               \* log[w]: one record per checkpointed_step call, in call order
    ret,               \* ret[w]: what compute_loss returned
    optimizers,        \* what configure_optimizers raised or returned
    infer,             \* infer[r]: a SimpleRWKV session (tokens to submit, stateObj, logits)
    store,             \* a BlockStateList being written by the blocks of one forward call
    l2wrap             \* one application of L2Wrap: its arguments, ctx and results

vars == <<self, is_training_run, phase, batch, pc, frame, all_reduce,
          backward_calls, log, ret, optimizers, infer, store, l2wrap>>

----------------------------------------------------------------------------
(* Bounds of the model *)

MaxT == 3        \* input positions per sequence, general specification
MaxCtx == 2      \* ctx_len, general specification
MaxSegT == 11    \* input positions per sequence, segmentation specification
MaxSegCtx == 4   \* ctx_len, segmentation specification
MaxTokT == 3     \* input positions per sequence, token specification
MaxInferLen == 4 \* tokens submitted to one SimpleRWKV session
MaxChunk == 3    \* rows of one chunk handed to the blocks
MaxWindow == 2   \* rows a Time-Mix shift state holds (2**12 in the source)
MaxCalls == 2    \* forward calls made on one BlockStateList chain

DeviceIds == {1, 2}
Tokens == {0, 1}
LearningRanges == {-1, 0, 1, 2}

----------------------------------------------------------------------------
(* Arithmetic and sequence helpers *)

Min(a, b) == IF a <= b THEN a ELSE b

Max(a, b) == IF a >= b THEN a ELSE b

\* math.ceil(a / b) for a >= 0, b >= 1
Ceil(a, b) == (a + b - 1) \div b

\* python s[a:b] for 0 <= a, on a 1-based TLA+ sequence
Slice(s, a, b) == SubSeq(s, a + 1, Min(b, Len(s)))

\* tensor[:, a:b]
SliceCols(rows, a, b) == [r \in DOMAIN rows |-> Slice(rows[r], a, b)]

RECURSIVE SumTo(_, _)
\* sum of f[0] .. f[n-1]
SumTo(f, n) == IF n = 0 THEN 0 ELSE f[n - 1] + SumTo(f, n - 1)

RECURSIVE SumSeq(_)
SumSeq(s) == IF s = <<>> THEN 0 ELSE Head(s) + SumSeq(Tail(s))

\* torch.sum over a 2D tensor
SumRows(rows) == SumSeq([r \in DOMAIN rows |-> SumSeq(rows[r])])

Width(rows) == IF rows = <<>> THEN 0 ELSE Len(rows[1])

\* tensor.view(-1)[k], k counted from 0
FlatAt(rows, k) == rows[(k \div Width(rows)) + 1][(k % Width(rows)) + 1]

Workers == {w \in DeviceIds : w <= self.num_devices}

----------------------------------------------------------------------------
(* The Stack, abstracted: a row's Stack State is the token history *)

\* the identity Stack State of one row: nothing consumed yet (shift states
\* zero, recurrence accumulators zero with the running maximum at -1e38)
IdentityState == <<>>

\* BlockStateList.create: the identity state of every one of B rows
CreateStates(B) == [r \in 1..B |-> IdentityState]

\* BlockStateList.empty: torch.empty does not initialise, so the state of a
\* row is whatever the memory holds: the identity, or something that is the
\* state after no token sequence (written as the history <<2>>)
EmptyStates(B) == [1..B -> {IdentityState, <<2>>}]

\* RWKV.forward on one row: the state after consuming toks, in order
ForwardRow(state, toks) == state \o toks

\* a forward pass that ignores the state it is given
Forward_Stateless(idx, last_states) ==
    [r \in DOMAIN last_states |-> idx[IF Len(idx) = 1 THEN 1 ELSE r]]

\* RWKV.forward on a chunk; a one-row chunk (the dummy) is fed to every row
Forward(idx, last_states) ==
    [r \in DOMAIN last_states |->
        ForwardRow(last_states[r], idx[IF Len(idx) = 1 THEN 1 ELSE r])]

\* RWKV.forward: assert T <= self.ctx_len, "Cannot forward, model ctx_len is
\* exhausted."
ForwardRaises(idx, ctx_len) == Width(idx) > ctx_len

RECURSIVE HistWeight(_)
HistWeight(h) == IF h = <<>> THEN 0 ELSE Len(h) * (h[Len(h)] + 1) + HistWeight(SubSeq(h, 1, Len(h) - 1))

\* F.cross_entropy(..., reduction="none") at one position: a positive number
\* decided by the state that produced the logits and by the target
PosLoss(h, target) == 1 + ((HistWeight(h) + target) % 3)

\* checkpointed_step: forward over one chunk, masked loss, new running totals
WideSubmask(mask, n) == [k \in 0..(n - 1) |-> FlatAt(mask, k)]

CheckpointedStep(idx, targets, mask, prev_loss, last_states, prev_steps) ==
    LET wt == Width(idx)
        n == Len(idx) * wt
        rowOf(k) == (k \div wt) + 1
        colOf(k) == (k % wt) + 1
        loss == [k \in 0..(n - 1) |->
                    PosLoss(ForwardRow(last_states[rowOf(k)], SubSeq(idx[rowOf(k)], 1, colOf(k))),
                            targets[rowOf(k)][colOf(k)])]
        submask == WideSubmask(mask, n)
        submask_sum == SumTo(submask, n)
        masked == [k \in 0..(n - 1) |-> loss[k] * submask[k]]
    IN  [new_loss |-> prev_loss + SumTo(masked, n),
         segment_loss |-> SumTo(masked, n),
         new_states |-> Forward(idx, last_states),
         new_steps |-> prev_steps + submask_sum,
         submask_sum |-> submask_sum,
         counted |-> {<<rowOf(k), colOf(k)>> : k \in {j \in 0..(n - 1) : submask[j] # 0}}]

----------------------------------------------------------------------------
(* Segmentation arithmetic of compute_loss *)

\* segment count rounded down instead of up
SegmentCount_Floor(T, ctx_len) == Max(1, T \div ctx_len)

\* segment_count = math.ceil(T / self.ctx_len)
SegmentCount(T, ctx_len) == Ceil(T, ctx_len)

\* segment size rounded down instead of up
BpttSegmentSize_Floor(T, ctx_len) == Min(T \div SegmentCount(T, ctx_len), ctx_len)

\* segment_size on the BPTT path
BpttSegmentSize(T, ctx_len) == Min(Ceil(T, SegmentCount(T, ctx_len)), ctx_len)

\* the loop without BPTT handing the whole sequence to one forward call
SegmentSize_Whole(T, ctx_len, do_bptt_learning) ==
    IF do_bptt_learning THEN BpttSegmentSize(T, ctx_len) ELSE Max(T, ctx_len)

\* segment_size used by a step
SegmentSize(T, ctx_len, do_bptt_learning) ==
    IF do_bptt_learning THEN BpttSegmentSize(T, ctx_len) ELSE ctx_len

\* every segment learns, whatever the range
FirstLearningSegment_All(segment_count, bptt_learning_range) == 0

\* first_learning_segment
FirstLearningSegment(segment_count, bptt_learning_range) ==
    IF bptt_learning_range > 0 THEN segment_count - bptt_learning_range ELSE 0

\* whether the step asks all workers for the maximum segment count
NeedsAllReduce(num_devices, bptt_learning_range) ==
    num_devices > 1 /\ (bptt_learning_range > 1 \/ bptt_learning_range <= 0)

\* a dummy segment whose token, target and mask are 1 instead of 0
dummy_2d_one == << <<1>> >>

\* dummy_2d_zero: the one-token chunk used as index, target and mask of a
\* dummy segment
dummy_2d_zero == << <<0>> >>

----------------------------------------------------------------------------
(* Inputs *)

\* torch.ones_like(seq[:, 1:])
OnesLikeTargets(seq) == [r \in DOMAIN seq |-> [j \in 1..(Width(seq) - 1) |-> 1]]

\* data.py map_tokenizer: 0 for every prompt token, 1 for every completion
\* token, one entry per token of input_ids
PipelineMasks(len) == {[j \in 1..len |-> IF j <= p THEN 0 ELSE 1] : p \in 0..len}

\* any 0/1 mask with one entry per prediction target
TargetMasks(T) == [1..T -> {0, 1}]

\* a fixed token row of the given length
PatternRow(len) == [j \in 1..len |-> j % 2]

\* one-row batches of T input positions: fixed tokens, every kind of mask
\* (<<>> stands for a missing attention_mask)
OneRowBatches(T) ==
    {[input_ids |-> <<PatternRow(T + 1)>>, attention_mask |-> m] :
        m \in {<<>>} \cup {<<x>> : x \in TargetMasks(T) \cup PipelineMasks(T + 1)}}

\* one-row batches with every token row, default mask or a pipeline-built mask
TokenBatches(T) ==
    {[input_ids |-> <<t>>, attention_mask |-> m] :
        t \in [1..(T + 1) -> Tokens],
        m \in {<<>>, <<[j \in 1..(T + 1) |-> IF j <= 1 THEN 0 ELSE 1]>>}}

\* one-row batches for the configuration sweep: missing mask, all-zero mask,
\* one-token prompt
SweepBatches(T) ==
    {[input_ids |-> <<PatternRow(T + 1)>>, attention_mask |-> m] :
        m \in {<<>>, <<[j \in 1..(T + 1) |-> 0]>>,
               <<[j \in 1..(T + 1) |-> IF j <= 1 THEN 0 ELSE 1]>>}}

\* one-row batches with the default mask
DefaultMaskBatch(T) == [input_ids |-> <<PatternRow(T + 1)>>, attention_mask |-> <<>>]

\* two-row batches of 10 input positions: default mask, or one mask entry
\* per prediction target
ScenarioBatches ==
    {[input_ids |-> <<PatternRow(11), [j \in 1..11 |-> (j + 1) % 2]>>, attention_mask |-> m] :
        m \in {<<>>} \cup {<<x, [j \in 1..10 |-> IF j <= 5 THEN 0 ELSE 1]>> :
                              x \in {[j \in 1..10 |-> IF j <= p THEN 0 ELSE 1] : p \in {0, 3}}}}

IdleBatch == [input_ids |-> << <<0, 0>> >>, attention_mask |-> <<>>]

\* learning rates are counted in units of one step size: -1 stands for "not
\* set", as in the defaults of RWKV.__init__
LrValues == {-1, 0, 2}

\* every setting of the learning-rate and schedule options
LrOptions ==
    [target_lr_init : LrValues, lr_init : LrValues,
     target_lr_final : {-1, 2}, lr_final : {-1, 2},
     warmup_steps : {-1, 10}, lr_period : {-1, 5}, lr_period_type : {"epoch", "other"},
     accumulate_grad_batches : {1}, target_batch_size : {-1, 2}]

\* lr_init given, everything else left at its default
DefaultLr ==
    [target_lr_init |-> -1, lr_init |-> 2, target_lr_final |-> -1, lr_final |-> -1,
     warmup_steps |-> -1, lr_period |-> -1, lr_period_type |-> "epoch",
     accumulate_grad_batches |-> 1, target_batch_size |-> -1]

WithLr(base, lr) ==
    [ctx_len |-> base.ctx_len, bptt_learning |-> base.bptt_learning,
     bptt_learning_range |-> base.bptt_learning_range,
     bptt_truncated_learning |-> base.bptt_truncated_learning,
     num_devices |-> base.num_devices,
     target_lr_init |-> lr.target_lr_init, lr_init |-> lr.lr_init,
     target_lr_final |-> lr.target_lr_final, lr_final |-> lr.lr_final,
     warmup_steps |-> lr.warmup_steps, lr_period |-> lr.lr_period,
     lr_period_type |-> lr.lr_period_type,
     accumulate_grad_batches |-> lr.accumulate_grad_batches,
     target_batch_size |-> lr.target_batch_size,
     ctx_len_cutoffs |-> <<>>, ctx_len_warmup_steps |-> <<>>, global_step |-> 0]

\* a context-length curriculum and the trainer's step counter
WithCurriculum(cfg, schedule, global_step) ==
    [cfg EXCEPT !.ctx_len_cutoffs = schedule.ctx_len_cutoffs,
                !.ctx_len_warmup_steps = schedule.ctx_len_warmup_steps,
                !.global_step = global_step]

\* curricula: none, one entry, two entries in and out of step order, lists
\* of unequal length
Schedules ==
    {[ctx_len_warmup_steps |-> ws, ctx_len_cutoffs |-> cs] :
        ws \in {<<>>, <<5>>, <<5, 10>>, <<10, 5>>},
        cs \in {<<1>>, <<2, 1>>, <<3, 1>>}}

GlobalSteps == {0, 5, 7, 10}

BpttOptions(ctxs) ==
    [ctx_len : ctxs, bptt_learning : BOOLEAN, bptt_learning_range : LearningRanges,
     bptt_truncated_learning : BOOLEAN, num_devices : DeviceIds]

Configs(ctxs) == {WithLr(c, DefaultLr) : c \in BpttOptions(ctxs)}

\* configure_optimizers has not run
NoOptimizers == [raised |-> "none", returned |-> "none", lr_init |-> 0, lr_final |-> 0]

Runs == {"one_call", "two_calls"}

\* no SimpleRWKV session
IdleInfer ==
    [r \in Runs |-> [todo |-> <<>>, stateObj |-> <<>>, logits |-> <<>>,
                     fresh_starts |-> <<>>, raised |-> FALSE]]

\* no BlockStateList under construction
IdleStore == [kind |-> "none"]

\* L2Wrap is not applied
IdleL2Wrap == [phase |-> "none"]

\* no curriculum entry applied
NoCutoff == [applied |-> FALSE, entry |-> -1, pos |-> 0, len_cut |-> 0]

EmptyFrame ==
    [in_seq |-> <<>>, in_mask |-> <<>>, cutoff |-> NoCutoff,
     seq |-> <<>>, seq_mask |-> <<>>, T |-> 0, B |-> 0, total_mask_sum |-> 0,
     has_states |-> FALSE, states |-> <<>>, states_detached |-> FALSE, states_graph |-> {},
     total_loss |-> 0, grad |-> {}, steps |-> 0,
     segment_count |-> 0, segment_size |-> 0, first_learning_segment |-> 0,
     shared_segment_count |-> 0, i |-> 0, segment_loss |-> 0]

NoReturn == [kind |-> "none", loss |-> 0, total_mask_sum |-> 0, grad |-> {}]

InitOf(cfgs, runs, batches) ==
    /\ self \in cfgs
    /\ is_training_run \in runs
    /\ phase = "unconfigured"
    /\ batch \in {b \in [DeviceIds -> batches \cup {IdleBatch}] :
                    \A w \in DeviceIds : IF w <= self.num_devices
                                         THEN b[w] \in batches
                                         ELSE b[w] = IdleBatch}
    /\ pc = [w \in DeviceIds |-> IF w <= self.num_devices THEN "start" ELSE "off"]
    /\ frame = [w \in DeviceIds |-> EmptyFrame]
    /\ all_reduce = [w \in DeviceIds |-> 0]
    /\ backward_calls = [w \in DeviceIds |-> 0]
    /\ log = [w \in DeviceIds |-> <<>>]
    /\ ret = [w \in DeviceIds |-> NoReturn]
    /\ optimizers = NoOptimizers
    /\ infer = IdleInfer
    /\ store = IdleStore
    /\ l2wrap = IdleL2Wrap

\* worker synchronisation: BPTT training with an unlimited learning range,
\* every kind of mask
InitSync ==
    InitOf({c \in Configs(1..MaxCtx) : /\ c.bptt_learning
                                        /\ c.bptt_learning_range <= 0
                                        /\ ~c.bptt_truncated_learning},
           {TRUE}, UNION {OneRowBatches(T) : T \in 1..MaxT})

\* configuration sweep: every configuration, training and validation
InitSweep ==
    InitOf(Configs(1..MaxCtx), BOOLEAN, UNION {SweepBatches(T) : T \in 1..MaxT})

\* segmentation: long sequences on one worker, both loops
InitSegments ==
    InitOf({c \in Configs(1..MaxSegCtx) : /\ c.num_devices = 1
                                           /\ c.bptt_learning_range = -1
                                           /\ ~c.bptt_truncated_learning},
           BOOLEAN, {DefaultMaskBatch(T) : T \in 1..MaxSegT})

\* token sweep: every token row on one worker
InitTokens ==
    InitOf({c \in Configs(1..MaxCtx) : /\ c.num_devices = 1
                                        /\ c.bptt_learning_range = -1
                                        /\ ~c.bptt_truncated_learning},
           BOOLEAN, UNION {TokenBatches(T) : T \in 1..MaxTokT})

\* the concrete scenario: two rows, 10 input positions, ctx_len 4; a second
\* worker gets the same kind of batch or a short one
InitScenario ==
    /\ InitOf(Configs({4}), {TRUE}, ScenarioBatches \cup {DefaultMaskBatch(3)})
    /\ batch[1] \in ScenarioBatches

\* no training or validation step
TrainerIdle ==
    /\ self \in {c \in Configs(1..MaxCtx) : /\ c.num_devices = 1
                                            /\ ~c.bptt_learning
                                            /\ c.bptt_learning_range = -1
                                            /\ ~c.bptt_truncated_learning}
    /\ is_training_run = FALSE
    /\ phase = "unconfigured"
    /\ batch = [w \in DeviceIds |-> IdleBatch]
    /\ pc = [w \in DeviceIds |-> "off"]
    /\ frame = [w \in DeviceIds |-> EmptyFrame]
    /\ all_reduce = [w \in DeviceIds |-> 0]
    /\ backward_calls = [w \in DeviceIds |-> 0]
    /\ log = [w \in DeviceIds |-> <<>>]
    /\ ret = [w \in DeviceIds |-> NoReturn]
    /\ optimizers = NoOptimizers

\* a SimpleRWKV session that has submitted nothing yet: calls is the list of
\* token lists it will pass to forward, the first one without a stateObj
NewSession(calls) ==
    [todo |-> calls, stateObj |-> <<>>, logits |-> <<>>, fresh_starts |-> <<>>,
     raised |-> FALSE]

\* inference: the same tokens submitted to one session in one forward call
\* and to another in two, split at every point
InitInference ==
    /\ TrainerIdle
    /\ store = IdleStore
    /\ l2wrap = IdleL2Wrap
    /\ \E n \in 2..MaxInferLen :
          \E tokens \in [1..n -> Tokens] :
              \E k \in 1..(n - 1) :
                  infer = [r \in Runs |->
                              IF r = "one_call"
                              THEN NewSession(<<tokens>>)
                              ELSE NewSession(<<SubSeq(tokens, 1, k), SubSeq(tokens, k + 1, n)>>)]

\* curriculum: a single worker with a schedule, at several points of
\* training, in training and in validation, every kind of mask
InitCurriculum ==
    InitOf({WithCurriculum(c, sch, gs) :
                c \in {b \in Configs({MaxCtx}) : /\ b.num_devices = 1
                                                 /\ b.bptt_learning
                                                 /\ b.bptt_learning_range = -1
                                                 /\ ~b.bptt_truncated_learning},
                sch \in Schedules, gs \in GlobalSteps},
           BOOLEAN, UNION {OneRowBatches(T) : T \in 1..MaxT})

\* optimizer options: every setting of the learning-rate sources and the
\* schedule, on one or two workers
InitLr ==
    InitOf({WithLr(c, lr) : c \in {b \in BpttOptions({1}) : /\ b.bptt_learning
                                                            /\ b.bptt_learning_range \in {1, 2}
                                                            /\ ~b.bptt_truncated_learning},
                           lr \in LrOptions},
           {TRUE}, {DefaultMaskBatch(1)})


----------------------------------------------------------------------------
(* configure_optimizers *)

\* the multi-worker check accepting any range up to 2
ConfigureFails_Above2(cfg) ==
    cfg.bptt_learning /\ cfg.num_devices > 1 /\ cfg.bptt_learning_range > 2

\* raise NotImplementedError("bptt_learning_range > 1 is not supported yet")
ConfigureFails(cfg) ==
    cfg.bptt_learning /\ cfg.num_devices > 1 /\ cfg.bptt_learning_range > 1

\* assert not (target_lr_init <= 0.0 and lr_init <= 0.0)
LrSourceMissing(cfg) == cfg.target_lr_init <= 0 /\ cfg.lr_init <= 0

\* the second assert written with lr_init > 0.0
LrSourceConflict_Strict(cfg) == cfg.target_lr_init > 0 /\ cfg.lr_init > 0

\* assert not (target_lr_init > 0.0 and lr_init >= 0.0)
LrSourceConflict(cfg) == cfg.target_lr_init > 0 /\ cfg.lr_init >= 0

\* assert self.trainer.target_batch_size > 0, for either target rate
TargetBatchSizeMissing(cfg) ==
    (cfg.target_lr_init > 0 \/ cfg.target_lr_final > 0) /\ ~(cfg.target_batch_size > 0)

\* lr_init after "if target_lr_init > 0.0"; the division is exact for LrValues
EffectiveLrInit(cfg) ==
    IF cfg.target_lr_init > 0
    THEN (cfg.target_lr_init * cfg.accumulate_grad_batches) \div cfg.target_batch_size
    ELSE cfg.lr_init

\* lr_final after "if target_lr_final > 0.0" and "if lr_final < 0"
EffectiveLrFinal(cfg) ==
    LET given == IF cfg.target_lr_final > 0
                 THEN (cfg.target_lr_final * cfg.accumulate_grad_batches) \div cfg.target_batch_size
                 ELSE cfg.lr_final
    IN  IF given < 0 THEN cfg.lr_init ELSE given

\* raise ValueError("Use either warmup_steps or lr_period, not both.")
ScheduleConflict(cfg) == cfg.warmup_steps > 0 /\ cfg.lr_period > 0

\* raise ValueError(f"lr_period_type {self.lr_period_type} not supported.")
PeriodTypeUnsupported(cfg) ==
    /\ ~(cfg.warmup_steps > 0)
    /\ EffectiveLrInit(cfg) # EffectiveLrFinal(cfg)
    /\ cfg.lr_period # -1
    /\ cfg.lr_period_type \notin {"step", "epoch"}

\* the exception configure_optimizers ends in, in statement order
ConfigureRaises(cfg) ==
    IF ConfigureFails(cfg) THEN "NotImplementedError"
    ELSE IF LrSourceMissing(cfg) THEN "AssertionError"
    ELSE IF LrSourceConflict(cfg) THEN "AssertionError"
    ELSE IF TargetBatchSizeMissing(cfg) THEN "AssertionError"
    ELSE IF ScheduleConflict(cfg) THEN "ValueError"
    ELSE IF PeriodTypeUnsupported(cfg) THEN "ValueError"
    ELSE "none"

\* what configure_optimizers returns when nothing is raised
ConfigureReturns(cfg) ==
    IF cfg.warmup_steps > 0 THEN "optimizer+WarmupLR"
    ELSE IF EffectiveLrInit(cfg) = EffectiveLrFinal(cfg) THEN "optimizer"
    ELSE "optimizer+LinearLR"

ConfigureOptimizers ==
    /\ phase = "unconfigured"
    /\ is_training_run
    /\ LET raised == ConfigureRaises(self)
       IN  /\ phase' = IF raised = "none" THEN "ready" ELSE "fatal"
           /\ optimizers' =
                 IF raised = "none"
                 THEN [raised |-> "none", returned |-> ConfigureReturns(self),
                       lr_init |-> EffectiveLrInit(self), lr_final |-> EffectiveLrFinal(self)]
                 ELSE [NoOptimizers EXCEPT !.raised = raised]
    /\ UNCHANGED <<self, is_training_run, batch, pc, frame, all_reduce,
                   backward_calls, log, ret, infer, store, l2wrap>>

----------------------------------------------------------------------------
(* compute_loss *)

\* attention_mask, or the all-ones default when it is missing
EffectiveMask(b) ==
    IF b.attention_mask = <<>> THEN OnesLikeTargets(b.input_ids) ELSE b.attention_mask

\* the segmented BPTT path taken outside training as well
do_bptt_learning_AnyRun == self.bptt_learning

do_bptt_learning == self.bptt_learning /\ is_training_run

\* every backward pass is a collective: it completes for w once every worker
\* has entered as many backward passes as w has
BackwardJoined(w) == \A v \in Workers : backward_calls[v] >= backward_calls[w]

MaxReduce == CHOOSE m \in {all_reduce[v] : v \in Workers} :
                \A v \in Workers : all_reduce[v] <= m

\* the zero-mask return left out
NothingToLearn_Never(total_mask_sum) == FALSE

\* "if total_mask_sum == 0: return 0"
NothingToLearn(total_mask_sum) == total_mask_sum = 0

\* every segment handed a fresh state instead of the current one
PrvStates_Fresh(states, bptt_truncated_learning) == [r \in DOMAIN states |-> <<>>]

\* prv_att_shift_states, prv_ffn_shift_states, prv_wkv_states: the values of
\* the current states, cloned and detached under truncated learning
PrvStates(states, bptt_truncated_learning) == states

\* the states handed on attached whatever bptt_truncated_learning says
PrvGraph_Attached(graph, bptt_truncated_learning) == graph

\* the autograd graph behind the states handed to a segment: the segments
\* whose computation a backward pass through these states reaches;
\* clone().detach().requires_grad_(False) cuts it
PrvGraph(graph, bptt_truncated_learning) ==
    IF bptt_truncated_learning THEN {} ELSE graph

\* whether the states handed to a segment are a detached copy
PrvDetached(graph, bptt_truncated_learning) ==
    PrvGraph(graph \cup {-1}, bptt_truncated_learning) = {}

\* an exception leaves compute_loss
Raised(name) == [kind |-> name, loss |-> 0, total_mask_sum |-> 0, grad |-> {}]

RECURSIVE CutoffEntry(_, _, _, _, _, _)
\* the loop over the curriculum from entry i on ("for i in range(min(len(
\* self.ctx_len_warmup_steps), len(self.ctx_len_cutoffs)))"): the index of
\* the entry at which it breaks, -1 when it runs to the end
CutoffEntry(ctx_len_warmup_steps, ctx_len_cutoffs, i, prev_step, global_step, width) ==
    IF i >= Min(Len(ctx_len_warmup_steps), Len(ctx_len_cutoffs)) THEN -1
    ELSE LET step == ctx_len_warmup_steps[i + 1]
             len_cut == ctx_len_cutoffs[i + 1]
         IN  IF prev_step <= global_step /\ global_step < step /\ len_cut < width - 1
             THEN i
             ELSE CutoffEntry(ctx_len_warmup_steps, ctx_len_cutoffs, i + 1, step,
                              global_step, width)

\* the cutoff applied in validation as well
AppliedEntry_Always(width) ==
    CutoffEntry(self.ctx_len_warmup_steps, self.ctx_len_cutoffs, 0, 0,
                self.global_step, width)

\* the entry a step applies to a batch of the given width; none in validation
AppliedEntry(width) ==
    IF is_training_run
    THEN CutoffEntry(self.ctx_len_warmup_steps, self.ctx_len_cutoffs, 0, 0,
                     self.global_step, width)
    ELSE -1

\* pos = randint(0, seq.shape[1] - len_cut - 1), both ends included
CutoffPositions(width) ==
    IF AppliedEntry(width) >= 0
    THEN 0..(width - self.ctx_len_cutoffs[AppliedEntry(width) + 1] - 1)
    ELSE {0}

\* the window cut out of the sequence ("Original")
CutSeq_Window(seq, pos, len_cut) ==
    [r \in DOMAIN seq |-> SubSeq(seq[r], pos + 1, Min(pos + len_cut + 1, Len(seq[r])))]

\* seq = seq[:, :pos + len_cut + 1]
CutSeq(seq, pos, len_cut) == SliceCols(seq, 0, pos + len_cut + 1)

\* seq_mask[:, :pos] = 0
ZeroPrefix(seq_mask, pos) ==
    [r \in DOMAIN seq_mask |->
        [j \in 1..Len(seq_mask[r]) |-> IF j <= pos THEN 0 ELSE seq_mask[r][j]]]

\* seq_mask = seq_mask[:, :pos + len_cut + 1]; seq_mask[:, :pos] = 0
CutMask(seq_mask, pos, len_cut) == ZeroPrefix(SliceCols(seq_mask, 0, pos + len_cut + 1), pos)

\* From entry to the first segment: mask default, curriculum cutoff,
\* zero-mask return, state creation, segment arithmetic, and joining the
\* max-reduction
ComputeLossBegin(w) ==
    /\ pc[w] = "start"
    /\ phase = "ready" \/ ~is_training_run
    /\ \E pos \in CutoffPositions(Width(batch[w].input_ids)) :
       LET in_seq == batch[w].input_ids
           in_mask == EffectiveMask(batch[w])
           entry == AppliedEntry(Width(in_seq))
           len_cut == IF entry >= 0 THEN self.ctx_len_cutoffs[entry + 1] ELSE 0
           cutoff == IF entry >= 0
                     THEN [applied |-> TRUE, entry |-> entry, pos |-> pos, len_cut |-> len_cut]
                     ELSE NoCutoff
           seq == IF entry >= 0 THEN CutSeq(in_seq, pos, len_cut) ELSE in_seq
           seq_mask == IF entry >= 0 THEN CutMask(in_mask, pos, len_cut) ELSE in_mask
           T == Width(seq) - 1
           B == Len(seq)
           total_mask_sum == SumRows(seq_mask)
           segment_count == SegmentCount(T, self.ctx_len)
           base == [EmptyFrame EXCEPT !.in_seq = in_seq, !.in_mask = in_mask,
                                      !.cutoff = cutoff,
                                      !.seq = seq, !.seq_mask = seq_mask, !.T = T, !.B = B,
                                      !.total_mask_sum = total_mask_sum]
           started == [base EXCEPT !.has_states = TRUE, !.states = CreateStates(B),
                                   !.segment_count = segment_count,
                                   !.segment_size = SegmentSize(T, self.ctx_len, do_bptt_learning)]
       IN  \* the slice is a view: zeroing it writes through to the batch's mask
           /\ batch' = [batch EXCEPT ![w].attention_mask =
                           IF entry >= 0 /\ @ # <<>> THEN ZeroPrefix(@, pos) ELSE @]
           /\ IF NothingToLearn(total_mask_sum)
              THEN /\ frame' = [frame EXCEPT ![w] = base]
                   /\ ret' = [ret EXCEPT ![w] = [NoReturn EXCEPT !.kind = "int"]]
                   /\ pc' = [pc EXCEPT ![w] = "returned"]
                   /\ UNCHANGED all_reduce
              ELSE IF ~do_bptt_learning
              THEN /\ frame' = [frame EXCEPT ![w] = started]
                   /\ pc' = [pc EXCEPT ![w] = "plain_segment"]
                   /\ UNCHANGED <<ret, all_reduce>>
              ELSE IF NeedsAllReduce(self.num_devices, self.bptt_learning_range)
              THEN /\ frame' = [frame EXCEPT ![w] =
                          [started EXCEPT !.first_learning_segment =
                              FirstLearningSegment(segment_count, self.bptt_learning_range)]]
                   /\ all_reduce' = [all_reduce EXCEPT ![w] = segment_count]
                   /\ pc' = [pc EXCEPT ![w] = "all_reduce"]
                   /\ UNCHANGED ret
              ELSE /\ frame' = [frame EXCEPT ![w] =
                          [started EXCEPT !.first_learning_segment =
                              FirstLearningSegment(segment_count, self.bptt_learning_range),
                                          !.shared_segment_count = segment_count]]
                   /\ pc' = [pc EXCEPT ![w] = "segment"]
                   /\ UNCHANGED <<ret, all_reduce>>
    /\ UNCHANGED <<self, is_training_run, optimizers, infer, store, l2wrap, phase, backward_calls, log>>

\* all_reduce(segment_count, reduce_op="max") returns once every worker joined
AllReduceMax(w) ==
    /\ pc[w] = "all_reduce"
    /\ \A v \in Workers : all_reduce[v] # 0
    /\ frame' = [frame EXCEPT ![w].shared_segment_count = MaxReduce]
    /\ pc' = [pc EXCEPT ![w] = "segment"]
    /\ UNCHANGED <<self, is_training_run, optimizers, infer, store, l2wrap, phase, batch, all_reduce, backward_calls, log, ret>>

\* the record kept of one checkpointed_step call
LogEntry(f, r, lo, width, dummy, in_states, detached, in_graph, backward) ==
    [i |-> f.i, dummy |-> dummy, lo |-> lo, hi |-> lo + width,
     in_states |-> in_states, detached_in |-> detached, out_states |-> r.new_states,
     reach |-> in_graph \cup {f.i},
     mask_cols |-> IF dummy THEN Width(dummy_2d_zero)
                   ELSE Width(SliceCols(f.seq_mask, lo, lo + f.segment_size)),
     segment_loss |-> r.segment_loss, submask_sum |-> r.submask_sum,
     counted |-> {<<c[1], lo + c[2] - 1>> : c \in r.counted},
     backward |-> backward]

Returned(f, total_loss, grad) ==
    [kind |-> "tensor", loss |-> total_loss, total_mask_sum |-> f.total_mask_sum, grad |-> grad]

\* the eager backward passes stopping one segment early
BackwardKind_EarlyCaller(i, first_learning_segment, shared_segment_count) ==
    IF i >= first_learning_segment
    THEN IF i < shared_segment_count - 2 THEN "eager" ELSE "caller"
    ELSE "none"

\* which backward a BPTT segment gets: "eager" (manual_backward with
\* retain_graph), "caller" (left attached to the returned loss) or "none"
BackwardKind(i, first_learning_segment, shared_segment_count) ==
    IF i >= first_learning_segment
    THEN IF i < shared_segment_count - 1 THEN "eager" ELSE "caller"
    ELSE "none"

\* one iteration of the BPTT loop, up to the point where manual_backward blocks
BpttSegment(w) ==
    /\ pc[w] = "segment"
    /\ LET f == frame[w]
           i == f.i
           idx == SliceCols(f.seq, 0, f.T)
           targets == SliceCols(f.seq, 1, f.T + 1)
           real == i <= f.segment_count - 1
           lo == i * f.segment_size
           hi == (i + 1) * f.segment_size
           cur_idx == IF real THEN SliceCols(idx, lo, hi) ELSE dummy_2d_zero
           cur_tar == IF real THEN SliceCols(targets, lo, hi) ELSE dummy_2d_zero
           cur_msk == IF real THEN SliceCols(f.seq_mask, lo, hi) ELSE dummy_2d_zero
           prv_states == PrvStates(f.states, self.bptt_truncated_learning)
           prv_graph == PrvGraph(f.states_graph, self.bptt_truncated_learning)
           detached == PrvDetached(f.states_graph, self.bptt_truncated_learning)
           r == CheckpointedStep(cur_idx, cur_tar, cur_msk, 0, prv_states, f.steps)
           kind == BackwardKind(i, f.first_learning_segment, f.shared_segment_count)
           entry == LogEntry(f, r, lo, Width(cur_tar), ~real, prv_states,
                             detached, prv_graph, kind)
           stepped == [f EXCEPT !.states = r.new_states, !.steps = r.new_steps,
                                !.states_detached = detached,
                                !.states_graph = prv_graph \cup {i},
                                !.segment_loss = r.segment_loss]
       IN  IF ForwardRaises(cur_idx, self.ctx_len)
           THEN /\ pc' = [pc EXCEPT ![w] = "raised"]
                /\ ret' = [ret EXCEPT ![w] = Raised("AssertionError")]
                /\ UNCHANGED <<frame, log, backward_calls>>
           ELSE
           /\ log' = [log EXCEPT ![w] = Append(@, entry)]
           /\ IF kind = "eager"
              THEN /\ frame' = [frame EXCEPT ![w] = stepped]
                   /\ backward_calls' = [backward_calls EXCEPT ![w] = @ + 1]
                   /\ pc' = [pc EXCEPT ![w] = "manual_backward"]
                   /\ UNCHANGED ret
              ELSE LET total_loss == f.total_loss + r.segment_loss
                       grad == IF kind = "caller" THEN f.grad \cup {i} ELSE f.grad
                       last == i + 1 >= f.shared_segment_count
                   IN  /\ frame' = [frame EXCEPT ![w] =
                              [stepped EXCEPT !.total_loss = total_loss, !.grad = grad,
                                              !.i = i + 1]]
                       /\ pc' = [pc EXCEPT ![w] = IF last THEN "returned" ELSE "segment"]
                       /\ ret' = IF last
                                 THEN [ret EXCEPT ![w] = Returned(f, total_loss, grad)]
                                 ELSE ret
                       /\ UNCHANGED backward_calls
    /\ UNCHANGED <<self, is_training_run, optimizers, infer, store, l2wrap, phase, batch, all_reduce>>

\* manual_backward returns, and the segment's loss is accumulated detached
ManualBackward(w) ==
    /\ pc[w] = "manual_backward"
    /\ BackwardJoined(w)
    /\ frame' = [frame EXCEPT ![w].total_loss = @ + frame[w].segment_loss,
                              ![w].i = @ + 1]
    /\ pc' = [pc EXCEPT ![w] = "segment"]
    /\ UNCHANGED <<self, is_training_run, optimizers, infer, store, l2wrap, phase, batch, all_reduce, backward_calls, log, ret>>

\* one iteration of the loop without BPTT
PlainSegment(w) ==
    /\ pc[w] = "plain_segment"
    /\ LET f == frame[w]
           i == f.i
           idx == SliceCols(f.seq, 0, f.T)
           targets == SliceCols(f.seq, 1, f.T + 1)
           lo == i * f.segment_size
           hi == (i + 1) * f.segment_size
           cur_tar == SliceCols(targets, lo, hi)
           r == CheckpointedStep(SliceCols(idx, lo, hi), cur_tar,
                                 SliceCols(f.seq_mask, lo, hi),
                                 f.total_loss, f.states, f.steps)
           entry == LogEntry(f, r, lo, Width(cur_tar), FALSE, f.states, FALSE,
                             f.states_graph,
                             IF is_training_run THEN "caller" ELSE "none")
           grad == f.grad \cup {i}
           last == i + 1 >= f.segment_count
       IN  IF ForwardRaises(SliceCols(idx, lo, hi), self.ctx_len)
           THEN /\ pc' = [pc EXCEPT ![w] = "raised"]
                /\ ret' = [ret EXCEPT ![w] = Raised("AssertionError")]
                /\ UNCHANGED <<frame, log>>
           ELSE
           /\ log' = [log EXCEPT ![w] = Append(@, entry)]
           /\ frame' = [frame EXCEPT ![w] =
                  [f EXCEPT !.states = r.new_states, !.steps = r.new_steps,
                            !.states_graph = f.states_graph \cup {i},
                            !.total_loss = r.new_loss, !.grad = grad, !.i = i + 1]]
           /\ pc' = [pc EXCEPT ![w] = IF last THEN "returned" ELSE "plain_segment"]
           /\ ret' = IF last THEN [ret EXCEPT ![w] = Returned(f, r.new_loss, grad)] ELSE ret
    /\ UNCHANGED <<self, is_training_run, optimizers, infer, store, l2wrap, phase, batch, all_reduce, backward_calls>>

----------------------------------------------------------------------------
(* training_step / validation_step and the trainer's own backward pass *)

\* training_step returned a loss tensor: the trainer enters its backward pass
TrainingStepReturn(w) ==
    /\ pc[w] = "returned"
    /\ is_training_run /\ ret[w].kind = "tensor"
    /\ backward_calls' = [backward_calls EXCEPT ![w] = @ + 1]
    /\ pc' = [pc EXCEPT ![w] = "trainer_backward"]
    /\ UNCHANGED <<self, is_training_run, optimizers, infer, store, l2wrap, phase, batch, frame, all_reduce, log, ret>>

\* the trainer's backward pass completes: sequence complete
TrainerBackward(w) ==
    /\ pc[w] = "trainer_backward"
    /\ BackwardJoined(w)
    /\ pc' = [pc EXCEPT ![w] = "done"]
    /\ UNCHANGED <<self, is_training_run, optimizers, infer, store, l2wrap, phase, batch, frame, all_reduce,
                   backward_calls, log, ret>>

\* validation_step returned, or training_step returned the integer 0:
\* there is nothing to run backward on
StepReturnNoBackward(w) ==
    /\ pc[w] = "returned"
    /\ ~is_training_run \/ ret[w].kind = "int"
    /\ pc' = [pc EXCEPT ![w] = "done"]
    /\ UNCHANGED <<self, is_training_run, optimizers, infer, store, l2wrap, phase, batch, frame, all_reduce,
                   backward_calls, log, ret>>

----------------------------------------------------------------------------
(* SimpleRWKV: inference through RWKV.forward *)

\* RWKV.forward: cur_bs_list is BlockStateList.empty(...) when no state is
\* passed (uninitialised is what that memory holds), the passed state otherwise
CurStates(last_states, uninitialised) ==
    IF last_states = <<>> THEN uninitialised ELSE last_states[1]

\* logits_arr[0][-1]: the logits at the last position, decided by everything
\* the Stack has consumed
LastLogits(states) == <<Len(states[1]), HistWeight(states[1])>>

RECURSIVE FeedChunks(_, _, _, _)
\* SimpleRWKV._forward: "for i in range(0, token_len, self.ctx_len)", from
\* position i on; each chunk goes through RWKV.forward with the states the
\* chunk before it returned
FeedChunks(tokens, i, states, ctx_len) ==
    IF i >= Len(tokens) THEN states
    ELSE FeedChunks(tokens, i + ctx_len,
                    Forward(<<Slice(tokens, i, i + ctx_len)>>, states), ctx_len)

\* SimpleRWKV.forward(tokens, stateObj): one call of session r. With an empty
\* token list the loop does not run and indexing logits_arr (None) raises.
SimpleForward(r) ==
    /\ infer[r].todo # <<>>
    /\ ~infer[r].raised
    /\ \E uninitialised \in EmptyStates(1) :
          LET tokens == Head(infer[r].todo)
              start == CurStates(infer[r].stateObj, uninitialised)
              final == FeedChunks(tokens, 0, start, self.ctx_len)
          IN  infer' = [infer EXCEPT ![r] =
                  IF tokens = <<>>
                  THEN [@ EXCEPT !.raised = TRUE]
                  ELSE [todo |-> Tail(@.todo),
                        stateObj |-> <<final>>,
                        logits |-> <<LastLogits(final)>>,
                        fresh_starts |-> IF @.stateObj = <<>>
                                         THEN Append(@.fresh_starts, start)
                                         ELSE @.fresh_starts,
                        raised |-> FALSE]]
    /\ UNCHANGED <<self, is_training_run, phase, batch, pc, frame, all_reduce,
                   backward_calls, log, ret, optimizers, store, l2wrap>>

----------------------------------------------------------------------------
(* BlockStateList: the state slots of the blocks during RWKV.forward *)

\* BlockStateList.empty: one tensor of n_layer cells for the shift states and
\* one for the recurrence states, each repeated att_channels times in its
\* list ("[torch.empty(...)] * att_channels" repeats the reference)
EmptyList(base, att_channels) ==
    [att_shift_channel_states |-> [k \in 1..att_channels |-> base],
     wkv_shift_channel_states |-> [k \in 1..att_channels |-> base + 1]]

\* torch.empty: a tensor of n_layer cells that hold nothing defined
EmptyTensor(n_layer) == [k \in 0..(n_layer - 1) |-> "uninitialised"]

\* one zero row of a shift state
ZeroRow == <<>>

\* BlockStateList.create: zero shift rows, identity recurrence state
CreateShiftTensor(n_layer) == [k \in 0..(n_layer - 1) |-> [j \in 1..MaxWindow |-> ZeroRow]]

CreateWkvTensor(n_layer) == [k \in 0..(n_layer - 1) |-> <<>>]

\* the x handed to every Time-Mix channel of block layer_id: ln1 of the block
\* input, one row per position pos+1 .. pos+len of the sequence
BlockInput(layer_id, pos, len) == [t \in 1..len |-> <<layer_id, pos + t>>]

\* RWKV_TimeMix._forward_kvsr: xxx = torch.concat((last_state.shift_state, x), dim=1)
Concat(shift_state, x) == shift_state \o x

\* the shift state stored without the slice
StoredShift_Whole(xxx) == xxx

\* __setitem__: shift_state[:, -(2**12):, :]
StoredShift(xxx) == SubSeq(xxx, Max(1, Len(xxx) - MaxWindow + 1), Len(xxx))

\* the Time-Mix shift left at one step in every block ("Old version")
ShiftAmount_One(layer_id) == 1

\* RWKV_TimeMix.__init__: shiftamount = pow(2, layer_id), 1 when that
\* exceeds 2048
ShiftAmount(layer_id) == IF 2 ^ layer_id > 2048 THEN 1 ELSE 2 ^ layer_id

\* nn.ZeroPad2d((0, 0, shiftamount, -shiftamount)): shiftamount zero rows are
\* put in front and as many rows are dropped at the end
TimeShift(xxx, shiftamount) ==
    [t \in 1..Len(xxx) |-> IF t > shiftamount THEN xxx[t - shiftamount] ELSE ZeroRow]

\* _forward_kvsr: xx = self.time_shift(xxx)[:, -x.shape[1]:, :]
TimeMixShifted(shift_state, x, layer_id) ==
    LET xxxx == TimeShift(Concat(shift_state, x), ShiftAmount(layer_id))
    IN  SubSeq(xxxx, Len(xxxx) - Len(x) + 1, Len(xxxx))

\* BlockStateList.create: ffn_shift_states[:] = 0, one row per block
CreateFfnTensor(n_layer) == [k \in 0..(n_layer - 1) |-> <<ZeroRow>>]

\* the x handed to the Channel-Mix unit of block layer_id: ln2 of the block
\* input plus the summed Time-Mix outputs, one row per position
FfnInput(layer_id, pos, len) == [t \in 1..len |-> <<layer_id, pos + t, "ln2">>]

\* RWKV_ChannelMix.forward: xx = torch.concat((last_state.shift_state, x[:, :-1]), dim=1)
ChannelMixShifted(shift_state, x) == shift_state \o SubSeq(x, 1, Len(x) - 1)

\* the first row of the input kept as the new shift state
ChannelMixNewState_First(x) == x[1]

\* RWKV_ChannelMix.forward: ChannelMixState(x[:, -1])
ChannelMixNewState(x) == x[Len(x)]

\* __setitem__: self.ffn_shift_states[layer] = state.channel_mix_state.shift_state,
\* the row written into the one-row cell of the block
SetFfn(ffn_shift_states, layer, shift_state) ==
    [ffn_shift_states EXCEPT ![layer] = <<shift_state>>]

\* wkv_op: the new recurrence state, decided by the old one and by the keys
\* and values this channel derived from the chunk
WkvOp(wkv_state, layer_id, channel_id, len) == Append(wkv_state, <<layer_id, channel_id, len>>)

\* whether indexing a list of att_channels tensors by layer and a tensor of
\* n_layer cells by channel_id stays in range
InRange(n_layer, att_channels, layer, channel_id) ==
    layer < att_channels /\ channel_id < n_layer

\* the cell "self.att_shift_channel_states[layer][channel_id]" and its
\* recurrence twin: the tensor the list holds at index layer, cell channel_id
GetSlot(heap, list, layer, channel_id) ==
    [shift_state |-> heap[list.att_shift_channel_states[layer + 1]][channel_id],
     wkv_state |-> heap[list.wkv_shift_channel_states[layer + 1]][channel_id]]

\* BlockStateList.__setitem__(layer, state, channel_id)
SetItem(heap, list, layer, state, channel_id) ==
    [heap EXCEPT ![list.att_shift_channel_states[layer + 1]][channel_id] =
                     StoredShift(state.shift_state),
                 ![list.wkv_shift_channel_states[layer + 1]][channel_id] =
                     state.wkv_state]

RECURSIVE SetChannels(_, _, _, _, _)
\* "new_states[i] = new_state": the state of every channel below n is stored
SetChannels(heap, list, layer, att_states, n) ==
    IF n = 0 THEN heap
    ELSE SetItem(SetChannels(heap, list, layer, att_states, n - 1),
                 list, layer, att_states[n - 1], n - 1)

\* a chain of forward calls about to start: the states compute_loss creates
NewStore(n_layer, att_channels) ==
    [kind |-> "idle", n_layer |-> n_layer, att_channels |-> att_channels,
     cur |-> EmptyList(1, att_channels),
     new |-> EmptyList(1, att_channels),
     heap |-> [a \in 1..4 |-> IF a = 1 THEN CreateShiftTensor(n_layer)
                              ELSE IF a = 2 THEN CreateWkvTensor(n_layer)
                              ELSE EmptyTensor(n_layer)],
     cur_ffn |-> CreateFfnTensor(n_layer),
     new_ffn |-> EmptyTensor(n_layer),
     views |-> <<>>, ffn_views |-> <<>>,
     lengths |-> <<>>, pos |-> 0, cursor |-> 0, raised |-> "none",
     reads |-> <<>>, written |-> <<>>, prev_written |-> <<>>]

\* block states: one or two blocks with one or two attention channels
InitStore ==
    /\ TrainerIdle
    /\ infer = IdleInfer
    /\ l2wrap = IdleL2Wrap
    /\ \E n_layer \in 1..2 : \E att_channels \in 1..2 :
          store = NewStore(n_layer, att_channels)

\* RWKV.forward up to the block loop, on a chunk of len rows: new_states is a
\* fresh BlockStateList.empty, cur_bs_list wraps the states passed in
StoreForwardBegin ==
    /\ store.kind = "idle"
    /\ store.raised = "none"
    /\ Len(store.lengths) < MaxCalls
    /\ \E len \in 1..MaxChunk :
          LET base == IF store.cur.att_shift_channel_states[1] = 1 THEN 3 ELSE 1
          IN  store' = [store EXCEPT
                  !.kind = "forward",
                  !.new = EmptyList(base, store.att_channels),
                  !.heap = [@ EXCEPT ![base] = EmptyTensor(store.n_layer),
                                     ![base + 1] = EmptyTensor(store.n_layer)],
                  !.new_ffn = EmptyTensor(store.n_layer),
                  !.lengths = Append(@, len),
                  !.cursor = 0,
                  !.reads = <<>>,
                  !.prev_written = store.written,
                  !.written = <<>>]
    /\ UNCHANGED <<self, is_training_run, phase, batch, pc, frame, all_reduce,
                   backward_calls, log, ret, optimizers, infer, l2wrap>>

\* one round of the block loop: Block.forward runs every Time-Mix channel
\* and the Channel-Mix unit of block cursor on the states it reads from
\* cur_bs_list, and new_states stores the states the units return
StoreBlock ==
    /\ store.kind = "forward"
    /\ store.raised = "none"
    /\ store.cursor < store.n_layer
    /\ LET layer == store.cursor
           channels == 0..(store.att_channels - 1)
           len == store.lengths[Len(store.lengths)]
           x == BlockInput(layer, store.pos, len)
       IN  IF \E c \in channels : ~InRange(store.n_layer, store.att_channels, layer, c)
           THEN store' = [store EXCEPT !.raised = "IndexError"]
           ELSE LET last == [c \in channels |-> GetSlot(store.heap, store.cur, layer, c)]
                    att_states == [c \in channels |->
                        [shift_state |-> Concat(last[c].shift_state, x),
                         wkv_state |-> WkvOp(last[c].wkv_state, layer, c, len)]]
                    heap == SetChannels(store.heap, store.new, layer, att_states,
                                        store.att_channels)
                    ffn_x == FfnInput(layer, store.pos, len)
                    ffn_last == store.cur_ffn[layer]
                IN  store' = [store EXCEPT
                        !.heap = heap,
                        !.new_ffn = SetFfn(@, layer, ChannelMixNewState(ffn_x)),
                        !.views = @ \o [k \in 1..store.att_channels |->
                                           [call |-> Len(store.lengths), pos |-> store.pos,
                                            layer |-> layer, channel |-> k - 1,
                                            shift_state |-> last[k - 1].shift_state, x |-> x,
                                            xx |-> TimeMixShifted(last[k - 1].shift_state, x, layer)]],
                        !.ffn_views = Append(@,
                                           [call |-> Len(store.lengths), pos |-> store.pos,
                                            layer |-> layer, shift_state |-> ffn_last, x |-> ffn_x,
                                            xx |-> ChannelMixShifted(ffn_last, ffn_x)]),
                        !.cursor = layer + 1,
                        !.reads = @ \o [k \in 1..store.att_channels |->
                                           [layer |-> layer, channel |-> k - 1,
                                            state |-> last[k - 1]]],
                        !.written = @ \o [k \in 1..store.att_channels |->
                                           [layer |-> layer, channel |-> k - 1,
                                            state |-> GetSlot(heap, store.new, layer, k - 1)]]]
    /\ UNCHANGED <<self, is_training_run, phase, batch, pc, frame, all_reduce,
                   backward_calls, log, ret, optimizers, infer, l2wrap>>

\* RWKV.forward returns the lists of new_states; the caller passes them to
\* the next forward call
StoreForwardEnd ==
    /\ store.kind = "forward"
    /\ store.raised = "none"
    /\ store.cursor = store.n_layer
    /\ store' = [store EXCEPT !.kind = "idle", !.cur = store.new,
                              !.cur_ffn = store.new_ffn,
                              !.pos = @ + store.lengths[Len(store.lengths)]]
    /\ UNCHANGED <<self, is_training_run, phase, batch, pc, frame, all_reduce,
                   backward_calls, log, ret, optimizers, infer, l2wrap>>

----------------------------------------------------------------------------
(* L2Wrap: the regulariser wrapped around every segment's loss.  A tensor
   of shape (B, T, V) is a sequence of B rows of T positions of V entries;
   the gradient is counted in units of factor = 1e-4 / token_amount. *)

MaxRows == 2
MaxPos == 2

\* the logits of one position over two tokens; the last one has a tie
LogitRows == <<<<1, 2>>, <<2, 1>>, <<1, 1>>>>

\* a (B, T, V) logits tensor
LogitsTensor(B, T, k) ==
    [b \in 1..B |-> [t \in 1..T |-> LogitRows[((b + t + k) % Len(LogitRows)) + 1]]]

\* the 0/1 masks of shape (B, T)
Masks2d(B, T) == [1..B -> [1..T -> {0, 1}]]

\* the shape of a non-empty tensor of rank 3
Shape(y) == <<Len(y), Len(y[1]), Len(y[1][1])>>

\* "submask = mask.view(-1)[:loss.shape[0]]", loss holding B * T entries
Submask(mask, n) ==
    LET size == Len(mask) * Width(mask)
    IN  [k \in 1..(IF n < size THEN n ELSE size) |-> FlatAt(mask, k - 1)]

\* L2Wrap.backward has not run
NoGrads == [raised |-> "none", loss |-> 0, y |-> <<>>]

\* the arguments of "L2Wrap.apply(loss, logits, total_mask_sum, submask)"
\* in checkpointed_step and the gradient that reaches its result: logits of
\* B rows of T positions with a mask of the same shape
L2WrapInputs ==
    UNION {UNION {
        {[phase |-> "apply", loss |-> loss, y |-> LogitsTensor(B, T, k),
          token_amount |-> Max(1, SumRows(mask)),
          currentMask |-> Submask(mask, B * T), grad_output |-> g,
          ctx |-> <<>>, returned |-> <<>>, grads |-> NoGrads] :
            mask \in Masks2d(B, T),
            k \in 0..(Len(LogitRows) - 1), loss \in {0, 5}, g \in {1, 2}} :
        T \in 1..MaxPos} : B \in 1..MaxRows}

InitL2Wrap ==
    /\ TrainerIdle
    /\ infer = IdleInfer
    /\ store = IdleStore
    /\ l2wrap \in L2WrapInputs

\* L2Wrap.forward: y, token_amount and currentMask are kept in ctx and the
\* loss is returned
L2WrapForward ==
    /\ l2wrap.phase = "apply"
    /\ l2wrap' = [l2wrap EXCEPT
           !.phase = "forward",
           !.ctx = [saved_tensors |-> <<l2wrap.y>>,
                    token_amount |-> l2wrap.token_amount,
                    currentMask |-> l2wrap.currentMask],
           !.returned = <<l2wrap.loss>>]
    /\ UNCHANGED <<self, is_training_run, phase, batch, pc, frame, all_reduce,
                   backward_calls, log, ret, optimizers, infer, store>>

\* the largest entry of one position's logits
MaxOf(row) == CHOOSE m \in {row[v] : v \in DOMAIN row} : \A v \in DOMAIN row : row[v] <= m

\* "maxx, ids = torch.max(y, -1, keepdim=True)": ids holds for every
\* position the index of a largest entry; which one among equal entries is
\* not specified
TorchMaxIds(y) ==
    {ids \in [1..Len(y) -> [1..Len(y[1]) -> 1..Len(y[1][1])]] :
        \A b \in 1..Len(y) : \A t \in 1..Len(y[1]) :
            y[b][t][ids[b][t]] = MaxOf(y[b][t])}

\* "gy = torch.zeros_like(y); gy.scatter_(-1, ids, maxx * factor)"
Scatter(y, ids) ==
    [b \in 1..Len(y) |-> [t \in 1..Len(y[1]) |-> [v \in 1..Len(y[1][1]) |->
        IF v = ids[b][t] THEN y[b][t][v] ELSE 0]]]

\* "gy * ctx.currentMask[:, None][None, :]": the mask of N entries becomes a
\* tensor of shape (1, N, 1), and the product broadcasts it against (B, T, V);
\* sizes that differ without one of them being 1 raise
MulMask(gy, currentMask) ==
    LET B == Len(gy)
        T == Len(gy[1])
        V == Len(gy[1][1])
        N == Len(currentMask)
    IN  IF N # T /\ N # 1 /\ T # 1
        THEN [raised |-> "RuntimeError", y |-> <<>>]
        ELSE [raised |-> "none",
              y |-> [b \in 1..B |-> [n \in 1..Max(N, T) |-> [v \in 1..V |->
                        gy[b][IF T = 1 THEN 1 ELSE n][v]
                            * currentMask[IF N = 1 THEN 1 ELSE n]]]]]

\* L2Wrap.backward: "(grad_output, gy, None, None)"
Backward(ctx, grad_output, ids) ==
    LET y == ctx.saved_tensors[1]
        gy == MulMask(Scatter(y, ids), ctx.currentMask)
    IN  IF gy.raised # "none"
        THEN [NoGrads EXCEPT !.raised = gy.raised]
        ELSE [raised |-> "none", loss |-> grad_output, y |-> gy.y]

L2WrapBackward ==
    /\ l2wrap.phase = "forward"
    /\ \E ids \in TorchMaxIds(l2wrap.ctx.saved_tensors[1]) :
          l2wrap' = [l2wrap EXCEPT
              !.phase = "backward",
              !.grads = Backward(l2wrap.ctx, l2wrap.grad_output, ids)]
    /\ UNCHANGED <<self, is_training_run, phase, batch, pc, frame, all_reduce,
                   backward_calls, log, ret, optimizers, infer, store>>

----------------------------------------------------------------------------
(* The specification *)

Init ==
    \/ InitSync \/ InitSweep \/ InitSegments \/ InitTokens \/ InitScenario \/ InitLr
    \/ InitCurriculum
    \/ InitInference \/ InitStore \/ InitL2Wrap

WorkerNext(w) ==
    \/ ComputeLossBegin(w)
    \/ AllReduceMax(w)
    \/ BpttSegment(w)
    \/ ManualBackward(w)
    \/ PlainSegment(w)
    \/ TrainingStepReturn(w)
    \/ TrainerBackward(w)
    \/ StepReturnNoBackward(w)

TrainerNext ==
    \/ ConfigureOptimizers
    \/ \E w \in Workers : ComputeLossBegin(w)
    \/ \E w \in Workers : AllReduceMax(w)
    \/ \E w \in Workers : BpttSegment(w)
    \/ \E w \in Workers : ManualBackward(w)
    \/ \E w \in Workers : PlainSegment(w)
    \/ \E w \in Workers : TrainingStepReturn(w)
    \/ \E w \in Workers : TrainerBackward(w)
    \/ \E w \in Workers : StepReturnNoBackward(w)

Next ==
    \/ TrainerNext
    \/ \E r \in Runs : SimpleForward(r)
    \/ StoreForwardBegin
    \/ StoreBlock
    \/ StoreForwardEnd
    \/ L2WrapForward
    \/ L2WrapBackward

Spec == Init /\ [][Next]_vars

TypeOK ==
    /\ phase \in {"unconfigured", "ready", "fatal"}
    /\ \A w \in DeviceIds :
          pc[w] \in {"off", "start", "all_reduce", "segment", "manual_backward",
                     "plain_segment", "returned", "trainer_backward", "done", "raised"}

----------------------------------------------------------------------------
(* Properties *)

RealEntries(w) == SelectSeq(log[w], LAMBDA e : ~e.dummy)

DummyEntries(w) == SelectSeq(log[w], LAMBDA e : e.dummy)

RECURSIVE SumLoss(_)
SumLoss(entries) ==
    IF entries = <<>> THEN 0 ELSE Head(entries).segment_loss + SumLoss(Tail(entries))

RECURSIVE SumSubmask(_)
SumSubmask(entries) ==
    IF entries = <<>> THEN 0 ELSE Head(entries).submask_sum + SumSubmask(Tail(entries))

Widths(entries) == [k \in DOMAIN entries |-> entries[k].hi - entries[k].lo]

\* C1: once a step has returned a loss, the target slices of its real
\* segments are segment_count many, start at 0, end at T, each begins where
\* the previous one ended, none is empty and none is longer than ctx_len;
\* on the BPTT path and on the path without BPTT alike.
C1_SegmentsPartition ==
    \A w \in Workers :
        ret[w].kind = "tensor" =>
            LET real == RealEntries(w)
                n == Len(real)
            IN  /\ n = SegmentCount(frame[w].T, self.ctx_len)
                /\ n >= 1
                /\ real[1].lo = 0
                /\ real[n].hi = frame[w].T
                /\ \A k \in 1..n :
                      /\ real[k].lo < real[k].hi
                      /\ real[k].hi - real[k].lo <= self.ctx_len
                      /\ k < n => real[k].hi = real[k + 1].lo

\* a BPTT step and a step without BPTT have both finished a sequence whose
\* last segment is shorter than its first
C1_Witness ==
    \E w \in Workers :
        /\ pc[w] = "done" /\ ret[w].kind = "tensor"
        /\ Len(log[w]) >= 3
        /\ Widths(log[w])[Len(log[w])] < Widths(log[w])[1]
        /\ frame[w].T = MaxSegT

C5_OrderedThreading ==
    \A w \in Workers :
        \A k \in 1..Len(log[w]) :
            /\ log[w][k].i = k - 1
            /\ k = 1 => log[w][k].in_states = CreateStates(frame[w].B)
            /\ k > 1 => log[w][k].in_states = log[w][k - 1].out_states
            /\ \A j \in 1..Len(log[w]) :
                  log[w][k].in_states = log[w][j].out_states => k = j + 1

\* a BPTT step has run three segments
C5_Witness ==
    \E w \in Workers :
        /\ do_bptt_learning
        /\ Len(log[w]) = 3
        /\ pc[w] = "returned"

\* C6: a worker given a 2-row batch of 10 input positions with ctx_len 4, in
\* BPTT training with an unlimited learning range, has segment count 3, runs
\* segments of 4, 4 and 2 positions in order with the state threaded through
\* them, and has entered exactly 3 backward passes when its step is complete.
C6_Scenario ==
    \A w \in Workers :
        (/\ batch[w] \in ScenarioBatches
         /\ self.ctx_len = 4
         /\ do_bptt_learning /\ self.bptt_learning_range <= 0
         /\ pc[w] = "done") =>
            /\ frame[w].B = 2
            /\ frame[w].segment_count = 3
            /\ Widths(log[w]) = <<4, 4, 2>>
            /\ backward_calls[w] = 3
            /\ log[w][1].in_states = CreateStates(2)
            /\ log[w][2].in_states = log[w][1].out_states
            /\ log[w][3].in_states = log[w][2].out_states

\* the scenario batch has been through a complete BPTT training step
C6_Witness ==
    \E w \in Workers :
        /\ batch[w] \in ScenarioBatches
        /\ self.ctx_len = 4
        /\ do_bptt_learning /\ self.bptt_learning_range <= 0
        /\ pc[w] = "done"
        /\ backward_calls[w] = 3

\* C8: a step on a batch whose mask sums to zero returns the integer 0, makes
\* no forward call, enters no backward pass, creates no Stack State and joins
\* no reduction.
C8_ZeroMaskShortCircuit ==
    \A w \in Workers :
        (pc[w] # "start" /\ SumRows(EffectiveMask(batch[w])) = 0) =>
            /\ ret[w].kind = "int" /\ ret[w].loss = 0
            /\ log[w] = <<>>
            /\ backward_calls[w] = 0
            /\ ~frame[w].has_states
            /\ all_reduce[w] = 0

\* a training step on an all-zero mask is complete
C8_Witness ==
    \E w \in Workers :
        /\ pc[w] = "done" /\ is_training_run
        /\ SumRows(EffectiveMask(batch[w])) = 0

\* the segment count all workers share: the largest of their own counts
SharedCount ==
    CHOOSE m \in {SegmentCount(Width(batch[v].input_ids) - 1, self.ctx_len) : v \in Workers} :
        \A v \in Workers : SegmentCount(Width(batch[v].input_ids) - 1, self.ctx_len) <= m

\* C2: in multi-worker BPTT training with bptt_learning_range <= 0, every
\* worker whose step is complete has entered exactly as many backward passes
\* as the largest segment count of any worker, whatever its length and mask.
C2_EqualBackwardCalls ==
    (do_bptt_learning /\ self.num_devices > 1 /\ self.bptt_learning_range <= 0) =>
        \A w \in Workers : pc[w] = "done" => backward_calls[w] = SharedCount

\* short sequences, every configuration without truncation
InitFair ==
    InitOf({c \in Configs({1}) : ~c.bptt_truncated_learning}, BOOLEAN,
           SweepBatches(1) \cup SweepBatches(2))

\* the scheduling of the workers: each runs when it can
FairSpec ==
    /\ InitFair /\ [][TrainerNext]_vars
    /\ WF_vars(ConfigureOptimizers)
    /\ \A w \in DeviceIds : WF_vars(WorkerNext(w))

MaskMarksTarget(b, r, j) ==
    IF b.attention_mask = <<>> THEN TRUE
    ELSE IF Width(b.attention_mask) = Width(b.input_ids)
         THEN b.attention_mask[r][j + 2] = 1
         ELSE b.attention_mask[r][j + 1] = 1

MarkedTargets(b) ==
    {c \in (1..Len(b.input_ids)) \X (0..(Width(b.input_ids) - 2)) : MaskMarksTarget(b, c[1], c[2])}

CountedTargets(w) == UNION {log[w][k].counted : k \in {j \in 1..Len(log[w]) : ~log[w][j].dummy}}

\* C7: the prediction targets that contribute to a returned loss are exactly
\* the targets the attention mask marks; for [a,b,c,d] with mask [0,0,1,1]
\* these are the targets c and d.
C7_LossCountsMarkedTargets ==
    \A w \in Workers :
        ret[w].kind = "tensor" => CountedTargets(w) = MarkedTargets(batch[w])

\* C9 (as stated): every dummy segment has zero loss and leaves the Stack
\* State equal to the state after the last real segment.
C9_DummyLeavesState ==
    \A w \in Workers :
        \A k \in 1..Len(log[w]) :
            log[w][k].dummy =>
                /\ log[w][k].segment_loss = 0
                /\ log[w][k].out_states = RealEntries(w)[Len(RealEntries(w))].out_states

\* C9 (amended): every dummy segment has zero loss and zero unmasked count,
\* so the returned loss is the sum over the real segments; each dummy segment
\* advances every row's Stack State by the one dummy token 0.
C9_DummyAddsNoLoss ==
    \A w \in Workers :
        /\ \A k \in 1..Len(log[w]) :
              log[w][k].dummy =>
                  /\ log[w][k].segment_loss = 0
                  /\ log[w][k].submask_sum = 0
                  /\ log[w][k].out_states =
                        [r \in DOMAIN log[w][k].in_states |-> Append(log[w][k].in_states[r], 0)]
        /\ ret[w].kind = "tensor" => ret[w].loss = SumLoss(RealEntries(w))

\* a worker with fewer segments than its peer has completed its step after
\* running a dummy segment
C9_Witness ==
    \E w \in Workers :
        /\ pc[w] = "done"
        /\ Len(DummyEntries(w)) >= 1
        /\ Len(log[w]) = frame[w].shared_segment_count
        /\ ret[w].loss > 0

\* C10: the returned loss is the sum of the losses of all segments processed,
\* over the whole sequence's unmasked count, and the per-segment unmasked
\* counts add up to that whole-sequence count.
C10_LossIsMaskedMean ==
    \A w \in Workers :
        ret[w].kind = "tensor" =>
            /\ ret[w].loss = SumLoss(log[w])
            /\ ret[w].total_mask_sum = SumRows(EffectiveMask(batch[w]))
            /\ SumSubmask(log[w]) = ret[w].total_mask_sum

\* the input positions of worker w's batch
Positions(w) == Width(batch[w].input_ids) - 1

C16_MultiWorkerRangeRejected ==
    (is_training_run /\ self.bptt_learning /\ self.num_devices > 1
        /\ self.bptt_learning_range > 1) =>
        /\ phase \in {"unconfigured", "fatal"}
        /\ phase = "fatal" => optimizers.raised = "NotImplementedError"
        /\ \A w \in Workers :
              /\ pc[w] = "start"
              /\ log[w] = <<>>
              /\ all_reduce[w] = 0
              /\ backward_calls[w] = 0

\* configure_optimizers has raised for two workers with range 2
C16_Witness ==
    /\ phase = "fatal"
    /\ optimizers.raised = "NotImplementedError"
    /\ self.bptt_learning /\ self.num_devices = 2 /\ self.bptt_learning_range = 2

\* C17: once configure_optimizers has run, if warmup_steps and lr_period are
\* both positive, or target_lr_init is positive while lr_init is not negative,
\* or neither target_lr_init nor lr_init is positive, then it has raised and
\* returned no optimizer, and no training step starts.
C17_LrConflictsRejected ==
    (/\ phase # "unconfigured"
     /\ \/ self.warmup_steps > 0 /\ self.lr_period > 0
        \/ self.target_lr_init > 0 /\ self.lr_init >= 0
        \/ ~(self.target_lr_init > 0) /\ ~(self.lr_init > 0)) =>
        /\ phase = "fatal"
        /\ optimizers.raised # "none"
        /\ optimizers.returned = "none"
        /\ \A w \in Workers : pc[w] = "start"

\* configure_optimizers has raised because target_lr_init is set while
\* lr_init is 0, on one worker
C17_Witness ==
    /\ phase = "fatal"
    /\ optimizers.raised = "AssertionError"
    /\ self.target_lr_init > 0 /\ self.lr_init = 0
    /\ ~(self.warmup_steps > 0 /\ self.lr_period > 0)
    /\ self.num_devices = 1

C20_LearningRangeBackward ==
    \A w \in Workers :
        (do_bptt_learning /\ self.num_devices = 1 /\ ret[w].kind = "tensor") =>
            LET n == Len(log[w])
                sc == Ceil(frame[w].T, self.ctx_len)
                range == self.bptt_learning_range
                first == IF range > 0 THEN sc - range ELSE 0
                learned == {k \in 1..n : log[w][k].backward # "none"}
            IN  /\ n = sc
                /\ \A k \in 1..n : (k \in learned) <=> (k - 1 >= first)
                /\ Cardinality(learned) = IF range > 0 THEN Min(range, sc) ELSE sc
                /\ \A k \in (1..n) \ learned : (k - 1) \notin ret[w].grad
                /\ ret[w].loss = SumLoss(log[w])
                /\ pc[w] = "done" => backward_calls[w] = Cardinality(learned)

\* a single-worker step with range 2 is complete after three segments, the
\* first of which got no backward pass and added a non-zero loss
C20_Witness ==
    \E w \in Workers :
        /\ do_bptt_learning /\ self.num_devices = 1
        /\ self.bptt_learning_range = 2
        /\ pc[w] = "done"
        /\ Len(log[w]) = 3
        /\ log[w][1].backward = "none"
        /\ log[w][1].segment_loss > 0
        /\ backward_calls[w] = 2

\* C11: every pass over a new sequence starts from the identity Stack State:
\* the first forward call of a training or validation step is handed the
\* identity state of every row, and an inference forward call made without a
\* stateObj starts from the identity state.
C11_StartsFromIdentity ==
    /\ \A w \in Workers :
          log[w] # <<>> => log[w][1].in_states = [r \in 1..frame[w].B |-> IdentityState]
    /\ \A r \in Runs :
          \A k \in 1..Len(infer[r].fresh_starts) :
              infer[r].fresh_starts[k] = <<IdentityState>>

\* C12: once a session has submitted tokens A and then tokens B with the
\* stateObj of the first call, and another session has submitted A followed
\* by B in one call, both hold the same logits and the same stateObj.
C12_InferenceResumable ==
    (/\ infer["one_call"].logits # <<>> /\ infer["one_call"].todo = <<>>
     /\ infer["two_calls"].logits # <<>> /\ infer["two_calls"].todo = <<>>) =>
        /\ infer["one_call"].logits = infer["two_calls"].logits
        /\ infer["one_call"].stateObj = infer["two_calls"].stateObj

\* the slot of (layer, channel) in the list being written
NewSlot(layer, channel) == GetSlot(store.heap, store.new, layer, channel)

C14_OwnSlot ==
    (/\ store.kind \in {"idle", "forward"} /\ store.raised = "none"
     /\ store.written # <<>>) =>
        /\ \A c1, c2 \in 1..store.att_channels :
              c1 # c2 =>
                  /\ store.new.att_shift_channel_states[c1] #
                        store.new.att_shift_channel_states[c2]
                  /\ store.new.wkv_shift_channel_states[c1] #
                        store.new.wkv_shift_channel_states[c2]
        /\ \A k \in 1..Len(store.written) :
              NewSlot(store.written[k].layer, store.written[k].channel) =
                  store.written[k].state
        /\ \A k \in 1..Len(store.reads) :
              IF Len(store.lengths) = 1
              THEN store.reads[k].state =
                      [shift_state |-> [j \in 1..MaxWindow |-> ZeroRow], wkv_state |-> <<>>]
              ELSE \E j \in 1..Len(store.prev_written) :
                      /\ store.prev_written[j].layer = store.reads[k].layer
                      /\ store.prev_written[j].channel = store.reads[k].channel
                      /\ store.prev_written[j].state = store.reads[k].state

\* the index in log[w] of the last real segment's record, 0 when there is none
LastReal(w) ==
    IF \A k \in 1..Len(log[w]) : log[w][k].dummy THEN 0
    ELSE CHOOSE k \in 1..Len(log[w]) :
            /\ ~log[w][k].dummy
            /\ \A j \in (k + 1)..Len(log[w]) : log[w][j].dummy

\* the records of the segments whose loss entered the returned total with its
\* gradient attached
CallerSegments(w) == {k \in 1..Len(log[w]) : log[w][k].backward = "caller"}

\* C21 (as stated): once a BPTT training step has returned a loss, the one
\* segment whose backward pass is left to the caller is the final real
\* segment of that worker, also when dummy segments follow it, and that
\* segment's loss is the only one returned with its gradient attached.
C21_CallerGetsFinalReal ==
    \A w \in Workers :
        (do_bptt_learning /\ ret[w].kind = "tensor") =>
            /\ CallerSegments(w) = {LastReal(w)}
            /\ ret[w].grad = {log[w][LastReal(w)].i}

\* C21 (amended): once a BPTT training step has returned a loss, every
\* segment that got an eager backward pass (which retains the graph) is
\* followed by a later segment, and the one segment whose backward pass is
\* left to the caller is the last segment the worker processed, index
\* shared_segment_count - 1: the final real segment when no dummy segment
\* follows it, the last dummy segment otherwise; that segment's loss is the
\* only one returned with its gradient attached.
C21_CallerGetsLastProcessed ==
    \A w \in Workers :
        (do_bptt_learning /\ ret[w].kind = "tensor") =>
            LET n == Len(log[w])
            IN  /\ n = frame[w].shared_segment_count
                /\ CallerSegments(w) = {n}
                /\ ret[w].grad = {n - 1}
                /\ log[w][n].dummy <=> n > frame[w].segment_count
                /\ \A k \in 1..n : log[w][k].backward = "eager" => k < n
                /\ \A k \in 1..(n - 1) :
                      log[w][k].backward =
                          IF k - 1 >= frame[w].first_learning_segment THEN "eager" ELSE "none"

\* a worker with fewer segments than its peer has returned: its last real
\* segment got an eager backward pass and its last dummy segment was left to
\* the caller
C21_Witness ==
    \E w \in Workers :
        /\ do_bptt_learning /\ ret[w].kind = "tensor"
        /\ pc[w] = "done"
        /\ LastReal(w) >= 1 /\ LastReal(w) < Len(log[w])
        /\ log[w][LastReal(w)].backward = "eager"
        /\ log[w][Len(log[w])].dummy
        /\ log[w][Len(log[w])].backward = "caller"

\* the shifted views the Time-Mix channels have built so far, over all the
\* forward calls of the chain
TimeMixViews == IF store.kind = "none" THEN <<>> ELSE store.views

ChannelMixViews == IF store.kind = "none" THEN <<>> ELSE store.ffn_views

\* C23: in the Channel-Mix unit the shift state handed in is a single row;
\* the shifted view of a chunk has that row at the chunk's first position and
\* the input row one position before at every later position; the shift
\* state the block stores is the last row of the chunk's input; and the
\* shifted view of a sequence processed in consecutive chunks is row by row
\* the one a single chunk gives (zero at the first position of the sequence,
\* the input row one position before everywhere else).
C23_ChannelMixShift ==
    /\ \A k \in 1..Len(ChannelMixViews) :
          LET e == ChannelMixViews[k]
              L == Len(e.x)
          IN  /\ Len(e.shift_state) = 1
              /\ Len(e.xx) = L
              /\ e.xx[1] = e.shift_state[1]
              /\ \A t \in 2..L : e.xx[t] = e.x[t - 1]
              /\ \A t \in 1..L :
                    e.xx[t] = IF e.pos + t = 1 THEN ZeroRow
                              ELSE <<e.layer, e.pos + t - 1, "ln2">>
              /\ e.call = Len(store.lengths) => store.new_ffn[e.layer] = <<e.x[L]>>
    /\ (store.kind = "idle" /\ store.raised = "none" /\ Len(store.lengths) > 0) =>
          \A layer \in 0..(store.n_layer - 1) :
              store.cur_ffn[layer] = <<<<layer, store.pos, "ln2">>>>

\* the Channel-Mix unit of the second block has processed a chunk of several
\* rows in a second forward call, after a first call on several rows
C23_Witness ==
    \E k \in 1..Len(ChannelMixViews) :
        /\ ChannelMixViews[k].layer = 1
        /\ ChannelMixViews[k].call = 2
        /\ ChannelMixViews[k].pos >= 2
        /\ Len(ChannelMixViews[k].x) >= 2

\* C24 (as stated): when a curriculum cutoff applies, the token batch keeps
\* its rows, its columns and every token, the mask keeps its columns, and
\* only the mask entries before the chosen window are set to zero.
C24_ShapePreserved ==
    \A w \in Workers :
        frame[w].cutoff.applied =>
            LET f == frame[w]
            IN  /\ Len(f.seq) = Len(f.in_seq)
                /\ Width(f.seq) = Width(f.in_seq)
                /\ f.seq = f.in_seq
                /\ Width(f.seq_mask) = Width(f.in_mask)
                /\ \A r \in DOMAIN f.seq_mask : \A j \in 1..Width(f.seq_mask) :
                      f.seq_mask[r][j] = IF j <= f.cutoff.pos THEN 0 ELSE f.in_mask[r][j]

\* C24 (amended): when a curriculum cutoff applies with window start pos and
\* cutoff len_cut, the token batch keeps its rows and its first
\* pos + len_cut + 1 columns, every kept token in its place: the tokens
\* before the window are not removed, the tokens after it are.  The mask
\* keeps the same columns (as far as it has them); its entries before the
\* window are set to zero and the others are unchanged.
C24_PrefixMaskedTailCut ==
    \A w \in Workers :
        frame[w].cutoff.applied =>
            LET f == frame[w]
                kept == f.cutoff.pos + f.cutoff.len_cut + 1
            IN  /\ Len(f.seq) = Len(f.in_seq)
                /\ Width(f.seq) = kept
                /\ kept <= Width(f.in_seq)
                /\ \A r \in DOMAIN f.seq : \A j \in 1..kept : f.seq[r][j] = f.in_seq[r][j]
                /\ Len(f.seq_mask) = Len(f.in_mask)
                /\ Width(f.seq_mask) = Min(kept, Width(f.in_mask))
                /\ \A r \in DOMAIN f.seq_mask : \A j \in 1..Width(f.seq_mask) :
                      f.seq_mask[r][j] = IF j <= f.cutoff.pos THEN 0 ELSE f.in_mask[r][j]

\* a training step is complete whose cutoff window started after the first
\* token and ended before the last, and masked out a marked position
C24_Witness ==
    \E w \in Workers :
        /\ pc[w] = "done" /\ ret[w].kind = "tensor"
        /\ frame[w].cutoff.applied
        /\ frame[w].cutoff.pos >= 1
        /\ Width(frame[w].seq) < Width(frame[w].in_seq)
        /\ frame[w].in_mask[1][1] = 1
        /\ frame[w].seq_mask[1][1] = 0

\* the entries of the schedule (counted from 0) whose step range holds
\* global_step and whose cutoff is below the targets of a batch of the given
\* width
QualifyingEntries(width) ==
    {i \in 0..(Min(Len(self.ctx_len_warmup_steps), Len(self.ctx_len_cutoffs)) - 1) :
        /\ (IF i = 0 THEN 0 ELSE self.ctx_len_warmup_steps[i]) <= self.global_step
        /\ self.global_step < self.ctx_len_warmup_steps[i + 1]
        /\ self.ctx_len_cutoffs[i + 1] < width - 1}

\* C29: a training step applies the first qualifying entry of the schedule
\* and no other; the window then starts at a position the sequence has room
\* for, the kept sequence is no longer than the original, and every target
\* position whose mask is non-zero lies in the window of cutoff positions
\* starting there.  When no entry qualifies, and in every validation step,
\* sequence and mask are what the batch gave.
C29_OneEntryOneWindow ==
    \A w \in Workers :
        pc[w] \notin {"start", "off"} =>
            LET f == frame[w]
                Q == QualifyingEntries(Width(f.in_seq))
            IN  IF is_training_run /\ Q # {}
                THEN /\ f.cutoff.applied
                     /\ f.cutoff.entry \in Q
                     /\ \A i \in Q : f.cutoff.entry <= i
                     /\ f.cutoff.len_cut = self.ctx_len_cutoffs[f.cutoff.entry + 1]
                     /\ f.cutoff.pos >= 0
                     /\ f.cutoff.pos + f.cutoff.len_cut + 1 <= Width(f.in_seq)
                     /\ Width(f.seq) <= Width(f.in_seq)
                     /\ f.T <= f.cutoff.pos + f.cutoff.len_cut
                     /\ \A r \in DOMAIN f.seq_mask :
                           \A j \in 1..Min(f.T, Width(f.seq_mask)) :
                               f.seq_mask[r][j] # 0 =>
                                   /\ j > f.cutoff.pos
                                   /\ j <= f.cutoff.pos + f.cutoff.len_cut
                ELSE /\ ~f.cutoff.applied
                     /\ f.seq = f.in_seq /\ f.seq = batch[w].input_ids
                     /\ f.seq_mask = f.in_mask /\ f.seq_mask = EffectiveMask(batch[w])

\* a training step has applied the second entry of a schedule, the first one
\* not qualifying, with a window that starts after the first token, and has
\* returned a loss
C29_Witness ==
    \E w \in Workers :
        /\ is_training_run /\ ret[w].kind = "tensor"
        /\ frame[w].cutoff.applied
        /\ frame[w].cutoff.entry = 1
        /\ frame[w].cutoff.pos >= 1
        /\ 0 \notin QualifyingEntries(Width(frame[w].in_seq))

\* C25: a step whose mask (as given, or the all-ones default) has one column
\* per prediction target works on a mask of exactly T columns, also after a
\* curriculum cutoff, and every real segment's mask slice has as many
\* columns as its targets; a step given a mask of any other length raises
\* and computes no segment loss.
C25_MaskAligned ==
    \A w \in Workers :
        pc[w] \notin {"start", "off"} =>
            LET f == frame[w]
            IN  IF Width(f.in_mask) = Width(f.in_seq) - 1
                THEN /\ Width(f.seq_mask) = f.T
                     /\ \A k \in 1..Len(log[w]) :
                           ~log[w][k].dummy =>
                               log[w][k].mask_cols = log[w][k].hi - log[w][k].lo
                ELSE /\ log[w] = <<>>
                     /\ pc[w] = "raised"

\* C27: once configure_optimizers has returned for a configuration that
\* specifies no final learning rate (lr_final < 0, no target_lr_final) and no
\* warmup, the final learning rate it used equals the initial learning rate
\* it used and it returned the bare optimizer, whether the initial rate came
\* from lr_init or from target_lr_init.
C27_FinalDefaultsToInitial ==
    (/\ phase = "ready"
     /\ self.lr_final < 0 /\ ~(self.target_lr_final > 0)
     /\ ~(self.warmup_steps > 0)) =>
        /\ optimizers.lr_final = optimizers.lr_init
        /\ optimizers.returned = "optimizer"

\* C28: in BPTT training with bptt_learning_range = 1 no worker joins the
\* segment-count reduction and no segment gets an eager backward pass; every
\* worker's step returns a loss whose backward pass is left to the caller for
\* its last segment only, so every completed step has entered exactly one
\* backward pass, whatever the workers' segment counts are.
C28_RangeOneSingleBackward ==
    (do_bptt_learning /\ self.bptt_learning_range = 1) =>
        \A w \in Workers :
            /\ all_reduce[w] = 0
            /\ pc[w] # "manual_backward"
            /\ \A k \in 1..Len(log[w]) :
                  /\ log[w][k].backward # "eager"
                  /\ ~log[w][k].dummy
            /\ backward_calls[w] <= 1
            /\ pc[w] \in {"returned", "trainer_backward", "done"} =>
                  /\ ret[w].kind = "tensor"
                  /\ Len(log[w]) = frame[w].segment_count
                  /\ CallerSegments(w) = {Len(log[w])}
                  /\ ret[w].grad = {frame[w].segment_count - 1}
            /\ pc[w] = "done" => backward_calls[w] = 1

\* C30: a validation step never runs an eager backward pass, never joins the
\* segment-count reduction and never processes a dummy segment; once it has
\* returned it has processed exactly ceil(T / ctx_len) segments of at most
\* ctx_len tokens each, in order, whatever the training configuration is.
C30_ValidationSegments ==
    ~is_training_run =>
        \A w \in Workers :
            /\ all_reduce[w] = 0
            /\ backward_calls[w] = 0
            /\ pc[w] # "manual_backward"
            /\ \A k \in 1..Len(log[w]) :
                  /\ log[w][k].backward # "eager"
                  /\ ~log[w][k].dummy
                  /\ log[w][k].i = k - 1
                  /\ log[w][k].hi - log[w][k].lo <= self.ctx_len
                  /\ log[w][k].lo = IF k = 1 THEN 0 ELSE log[w][k - 1].hi
            /\ pc[w] \in {"returned", "done"} =>
                  LET T == Width(batch[w].input_ids) - 1
                  IN  Len(log[w]) = Ceil(T, self.ctx_len)

\* C30 (amended): as above, except that a validation step whose attention
\* mask sums to zero returns before the first segment and processes none;
\* every other validation step processes exactly ceil(T / ctx_len) segments.
C30_ValidationSegmentsUnlessZeroMask ==
    ~is_training_run =>
        \A w \in Workers :
            /\ all_reduce[w] = 0
            /\ backward_calls[w] = 0
            /\ pc[w] # "manual_backward"
            /\ \A k \in 1..Len(log[w]) :
                  /\ log[w][k].backward # "eager"
                  /\ ~log[w][k].dummy
                  /\ log[w][k].i = k - 1
                  /\ log[w][k].hi - log[w][k].lo <= self.ctx_len
                  /\ log[w][k].lo = IF k = 1 THEN 0 ELSE log[w][k - 1].hi
            /\ pc[w] \in {"returned", "done"} =>
                  LET T == Width(batch[w].input_ids) - 1
                  IN  Len(log[w]) = IF SumRows(EffectiveMask(batch[w])) = 0
                                    THEN 0
                                    ELSE Ceil(T, self.ctx_len)

C30_Witness ==
    /\ ~is_training_run
    /\ self.bptt_learning /\ self.num_devices = 2
    /\ \A w \in Workers : pc[w] = "done" /\ ret[w].kind = "tensor"
    /\ Len(log[1]) = 3 /\ Len(log[2]) = 1
    /\ log[1][3].hi - log[1][3].lo < self.ctx_len \/ self.ctx_len = 1

\* C26: L2Wrap returns the loss unchanged on the forward path; on the
\* backward path the gradient for the loss is the incoming gradient and the
\* gradient for the logits has the shape of the logits, is zero at every
\* entry that is not a largest logit of its position and zero at every entry
\* of a position whose mask is 0, for every number of rows.
C26_RegularizerGradient ==
    /\ l2wrap.phase \in {"forward", "backward"} => l2wrap.returned = <<l2wrap.loss>>
    /\ l2wrap.phase = "backward" =>
          LET y == l2wrap.y
              gy == l2wrap.grads.y
              T == Len(y[1])
          IN  /\ l2wrap.grads.raised = "none"
              /\ l2wrap.grads.loss = l2wrap.grad_output
              /\ Shape(gy) = Shape(y)
              /\ \A b \in 1..Len(y) : \A t \in 1..T : \A v \in 1..Len(y[1][1]) :
                    /\ y[b][t][v] # MaxOf(y[b][t]) => gy[b][t][v] = 0
                    /\ l2wrap.currentMask[(b - 1) * T + t] = 0 => gy[b][t][v] = 0

====
